---- MODULE Spec2Model ----
(***************************************************************************)
(* Model of streamlit_app.py: the cached load_data() and the script body   *)
(* that Streamlit re-executes top to bottom on every widget interaction.   *)
(* Timestamps are hours since an epoch (day * 24 + hour); floats that the  *)
(* code divides are exact rationals [num, den]; a pandas NaN/null cell is  *)
(* a cell with null = TRUE.                                                *)
(***************************************************************************)
EXTENDS Integers, Sequences, FiniteSets, TLC

\* ------------------------------------------------------------------ bounds
MaxDaily == 2
MaxSleep == 2
MaxHourly == 2

\* --------------------------------------------------------- generic helpers
RECURSIVE SelectSeq2(_, _)
\* boolean-mask indexing df[mask]: the rows whose mask is TRUE, in df order
SelectSeq2(df, mask) ==
    IF df = <<>> THEN <<>>
    ELSE IF Head(mask) THEN <<Head(df)>> \o SelectSeq2(Tail(df), Tail(mask))
         ELSE SelectSeq2(Tail(df), Tail(mask))

RECURSIVE SumSeq(_)
SumSeq(s) == IF s = <<>> THEN 0 ELSE Head(s) + SumSeq(Tail(s))

RECURSIVE Flatten(_)
Flatten(ss) == IF ss = <<>> THEN <<>> ELSE Head(ss) \o Flatten(Tail(ss))

SeqsUpTo(S, n) == UNION {[1..k -> S] : k \in 0..n}

\* ------------------------------------------------------------ cell values
\* the None of an unselected widget and of a name the run never bound
NoSelection == 0
Cell(n, d) == [null |-> FALSE, num |-> n, den |-> d]
NullCell == [null |-> TRUE, num |-> 0, den |-> 1]
RawDate(d, h) == [d |-> d, h |-> h, ok |-> TRUE]
BadDate == [d |-> 0, h |-> 0, ok |-> FALSE]

\* pd.to_datetime on one parseable cell
to_datetime(c) == c.d * 24 + c.h
\* Series.dt.date / Timestamp.date(): the calendar day of a timestamp
dt_date(ts) == ts \div 24
\* pd.to_datetime(date) for a date-picker value: midnight of that day
date_to_datetime(day) == day * 24

\* ---------------------------------------------------------- source schema
Sources == {"daily_activity", "daily_sleep", "hourly_steps",
            "hourly_intensity", "hourly_calories"}

MinutesColumns == <<"VeryActiveMinutes", "FairlyActiveMinutes",
                    "LightlyActiveMinutes", "SedentaryMinutes">>
DistanceColumns == <<"VeryActiveDistance", "ModeratelyActiveDistance",
                     "LightActiveDistance", "SedentaryActiveDistance">>
Range(s) == {s[i] : i \in DOMAIN s}

ExpectedColumns ==
    [daily_activity |-> {"Id", "ActivityDate", "TotalSteps", "TotalDistance",
                         "Calories"} \cup Range(MinutesColumns)
                         \cup Range(DistanceColumns),
     daily_sleep |-> {"Id", "SleepDay", "TotalMinutesAsleep"},
     hourly_steps |-> {"Id", "ActivityHour", "StepTotal"},
     hourly_intensity |-> {"Id", "ActivityHour", "TotalIntensity"},
     hourly_calories |-> {"Id", "ActivityHour", "Calories"}]

\* --------------------------------------------------------- input row pools
\* distances are thousandths of a km
ActivityRow(id, day, steps, dist, cal, mins, dists) ==
    [Id |-> id, ActivityDate |-> day, TotalSteps |-> steps,
     TotalDistance |-> dist, Calories |-> cal,
     VeryActiveMinutes |-> mins[1], FairlyActiveMinutes |-> mins[2],
     LightlyActiveMinutes |-> mins[3], SedentaryMinutes |-> mins[4],
     VeryActiveDistance |-> dists[1], ModeratelyActiveDistance |-> dists[2],
     LightActiveDistance |-> dists[3], SedentaryActiveDistance |-> dists[4]]

A1 == ActivityRow(1, RawDate(1, 0), 10000, 6500, 2000,
                  <<30, 20, 200, 700>>, <<2000, 1000, 3500, 0>>)
A2 == ActivityRow(1, RawDate(3, 0), 4000, 2876, 1500,
                  <<0, 10, 100, 900>>, <<0, 500, 2375, 0>>)
A3 == ActivityRow(2, RawDate(2, 0), 7000, 4524, 1800,
                  <<15, 5, 150, 800>>, <<1000, 525, 3000, 0>>)
A4 == ActivityRow(1, RawDate(1, 0), 300, 217, 90,
                  <<1, 2, 3, 4>>, <<100, 50, 60, 5>>)
ABad == [A1 EXCEPT !.ActivityDate = BadDate]
ActivityPool == {A1, A2, A3, A4}

SleepRow(id, day, minutes) ==
    [Id |-> id, SleepDay |-> day, TotalMinutesAsleep |-> minutes]
S1 == SleepRow(1, RawDate(1, 0), 360)
S2 == SleepRow(1, RawDate(1, 0), 0)
S3 == SleepRow(2, RawDate(2, 0), 425)
SBad == [S1 EXCEPT !.SleepDay = BadDate]
SleepPool == {S1, S2, S3}

CaloriesRow(id, ts, v) == [Id |-> id, ActivityHour |-> ts, Calories |-> v]
IntensityRow(id, ts, v) ==
    [Id |-> id, ActivityHour |-> ts, TotalIntensity |-> v]
StepsRow(id, ts, v) == [Id |-> id, ActivityHour |-> ts, StepTotal |-> v]
HC1 == CaloriesRow(1, RawDate(1, 8), 50)
HC2 == CaloriesRow(1, RawDate(1, 9), 60)
HC3 == CaloriesRow(1, RawDate(2, 8), 80)
HI1 == IntensityRow(1, RawDate(1, 8), 5)
HI2 == IntensityRow(1, RawDate(1, 9), 6)
HI3 == IntensityRow(2, RawDate(1, 8), 7)
HS1 == StepsRow(1, RawDate(1, 9), 100)
HS2 == StepsRow(1, RawDate(1, 8), 200)
CaloriesPool == {HC1, HC2, HC3}
IntensityPool == {HI1, HI2, HI3}
StepsPool == {HS1, HS2}

\* -------------------------------------------------------------- DataFrames
\* a DataFrame is its column set and its rows (functions column -> value)
DF(cols, rows) == [columns |-> cols, rows |-> rows]
EmptyDF == DF({}, <<>>)
Restrict(row, cols) == [k \in cols |-> row[k]]
\* pd.read_csv of a file holding `rows` under the header `cols`
read_csv(cols, rows) ==
    DF(cols, [i \in DOMAIN rows |-> Restrict(rows[i], cols)])
Column(df, c) == [i \in DOMAIN df.rows |-> df.rows[i][c]]
\* df[mask]
Filter(df, mask) == DF(df.columns, SelectSeq2(df.rows, mask))
\* df.rename(columns=m): names absent from df are ignored
NewName(k, m) == IF k \in DOMAIN m THEN m[k] ELSE k
RenameRow(row, m) ==
    [k2 \in {NewName(k, m) : k \in DOMAIN row} |->
        row[CHOOSE k \in DOMAIN row : NewName(k, m) = k2]]
rename(df, m) ==
    DF({NewName(k, m) : k \in df.columns},
       [i \in DOMAIN df.rows |-> RenameRow(df.rows[i], m)])
\* df[c] = values (assignment of a whole column)
SetColumn(df, c, values) ==
    DF(df.columns \cup {c},
       [i \in DOMAIN df.rows |->
          [k \in df.columns \cup {c} |->
             IF k = c THEN values[i] ELSE df.rows[i][k]]])
AllParse(df, c) == \A i \in DOMAIN df.rows : df.rows[i][c].ok
ParseColumn(df, c) ==
    SetColumn(df, c, [i \in DOMAIN df.rows |-> to_datetime(df.rows[i][c])])

\* ------------------------------------------------------------ pandas merge
\* one output row of a merge: the left row plus the right row's non-key
\* columns, null-filled when there is no right row
JoinRow(l, rcols, r, matched) ==
    [k \in DOMAIN l \cup rcols |->
        IF k \in DOMAIN l THEN l[k]
        ELSE IF matched THEN r[k] ELSE NullCell]
MatchMask(l, right, on) ==
    [j \in DOMAIN right.rows |-> \A k \in on : right.rows[j][k] = l[k]]
\* pd.merge(left, right, on=on, how='left'): left order kept, one output row
\* per matching right row, one null-filled row when nothing matches
merge_left(left, right, on) ==
    LET rcols == right.columns \ on
        out(l) ==
          LET m == SelectSeq2(right.rows, MatchMask(l, right, on))
          IN IF m = <<>> THEN <<JoinRow(l, rcols, l, FALSE)>>
             ELSE [j \in DOMAIN m |-> JoinRow(l, rcols, m[j], TRUE)]
    IN DF(left.columns \cup rcols,
          Flatten([i \in DOMAIN left.rows |-> out(left.rows[i])]))
\* faulty variant: the hourly merge keeps unmatched left rows (how='left')
merge_inner_how_left(left, right, on) == merge_left(left, right, on)
\* left.merge(right, on=on): inner join, unmatched rows of either side dropped
merge_inner(left, right, on) ==
    LET rcols == right.columns \ on
        out(l) ==
          LET m == SelectSeq2(right.rows, MatchMask(l, right, on))
          IN [j \in DOMAIN m |-> JoinRow(l, rcols, m[j], TRUE)]
    IN DF(left.columns \cup rcols,
          Flatten([i \in DOMAIN left.rows |-> out(left.rows[i])]))

\* ---------------------------------------------------------------- load_data
CombinedNames == [SleepHours |-> "Sleeping Hours", TotalSteps |-> "Steps",
                  TotalDistance |-> "Distance",
                  Calories |-> "Calories Burned"]

\* the exception load_data raises on these sources, "" when it returns
LoadError(fs, src) ==
    IF fs # Sources THEN "FileNotFoundError"
    ELSE IF "TotalMinutesAsleep" \notin src.daily_sleep.columns
      THEN "KeyError"
    ELSE IF "ActivityDate" \notin src.daily_activity.columns THEN "KeyError"
    ELSE IF ~AllParse(src.daily_activity, "ActivityDate") THEN "ValueError"
    ELSE IF "SleepDay" \notin src.daily_sleep.columns THEN "KeyError"
    ELSE IF ~AllParse(src.daily_sleep, "SleepDay") THEN "ValueError"
    ELSE IF \E t \in {"hourly_calories", "hourly_steps", "hourly_intensity"} :
              "ActivityHour" \notin src[t].columns THEN "KeyError"
    ELSE IF \E t \in {"hourly_calories", "hourly_steps", "hourly_intensity"} :
              ~AllParse(src[t], "ActivityHour") THEN "ValueError"
    ELSE IF "Id" \notin src.daily_activity.columns
              \/ "Id" \notin src.daily_sleep.columns THEN "KeyError"
    ELSE ""

SleepHoursOf(df) ==
    [i \in DOMAIN df.rows |-> Cell(df.rows[i]["TotalMinutesAsleep"], 60)]
AsCells(df, c) ==
    [i \in DOMAIN df.rows |-> Cell(df.rows[i][c], 1)]

\* the six tables load_data returns (only used when LoadError is "")
load_data(src) ==
    LET sleep1 == rename(src.daily_sleep, [SleepDay |-> "ActivityDate"])
        sleep2 == SetColumn(sleep1, "SleepHours", SleepHoursOf(sleep1))
        sleep3 == SetColumn(sleep2, "TotalMinutesAsleep",
                            AsCells(sleep2, "TotalMinutesAsleep"))
        da == ParseColumn(src.daily_activity, "ActivityDate")
        ds == ParseColumn(sleep3, "ActivityDate")
    IN [daily_activity |-> da,
        daily_sleep |-> ds,
        hourly_steps |-> ParseColumn(src.hourly_steps, "ActivityHour"),
        hourly_intensity |-> ParseColumn(src.hourly_intensity, "ActivityHour"),
        hourly_calories |-> ParseColumn(src.hourly_calories, "ActivityHour"),
        daily_combined |->
            rename(merge_left(da, ds, {"Id", "ActivityDate"}), CombinedNames)]

\* ------------------------------------------------------------ query layer
NaN == [kind |-> "nan", num |-> 0, den |-> 1]
Unset == [kind |-> "unset", num |-> 0, den |-> 1]

\* faulty variant: nulls count as zero (fillna(0) before the mean)
mean_nulls_as_zero(series) ==
    LET v == SelectSeq(series, LAMBDA c : ~c.null)
    IN IF series = <<>> THEN NaN
       ELSE [kind |-> "float",
             num |-> SumSeq([i \in DOMAIN v |-> v[i].num]),
             den |-> (IF v = <<>> THEN 1 ELSE v[1].den) * Len(series)]
\* Series.mean(): nulls are skipped, an empty or all-null series gives NaN
mean(series) ==
    LET v == SelectSeq(series, LAMBDA c : ~c.null)
    IN IF v = <<>> THEN NaN
       ELSE [kind |-> "float",
             num |-> SumSeq([i \in DOMAIN v |-> v[i].num]),
             den |-> v[1].den * Len(v)]

\* Series.round(2) on thousandths: the nearest hundredth
round2(x) == ((x + 5) \div 10) * 10

\* faulty variant: the filter is applied to df in place
get_user_df_inplace(u, d, df) ==
    LET user_df == Filter(df, [i \in DOMAIN df.rows |-> df.rows[i]["Id"] = u])
        day == Filter(user_df,
                 [i \in DOMAIN user_df.rows |->
                    dt_date(user_df.rows[i]["ActivityHour"])
                      = dt_date(date_to_datetime(d))])
    IN [ret |-> day, df |-> day]
\* get_user_df: the rows of df for one user on one calendar day, and df
\* itself as the call leaves it
get_user_df(u, d, df) ==
    LET user_df == Filter(df, [i \in DOMAIN df.rows |-> df.rows[i]["Id"] = u])
        day == Filter(user_df,
                 [i \in DOMAIN user_df.rows |->
                    dt_date(user_df.rows[i]["ActivityHour"])
                      = dt_date(date_to_datetime(d))])
    IN [ret |-> day, df |-> df]

\* faulty variant: the user filter is missing
user_df_unfiltered(da, u) == da
\* daily_activity[daily_activity['Id'] == user]
user_df_of(da, u) ==
    Filter(da, [i \in DOMAIN da.rows |-> da.rows[i]["Id"] = u])
Min(S) == CHOOSE x \in S : \A y \in S : x <= y
Max(S) == CHOOSE x \in S : \A y \in S : y <= x
\* min()/max() of an empty datetime series
NaT == 0 - 1
\* user_df["ActivityDate"].min() / .max()
series_min(df, c) == IF df.rows = <<>> THEN NaT ELSE Min(Range(Column(df, c)))
series_max(df, c) == IF df.rows = <<>> THEN NaT ELSE Max(Range(Column(df, c)))
\* faulty variant: the date filter is missing, so the sums run over all the user's days
day_df_all_days(udf, d) == udf
\* user_df[user_df['ActivityDate'] == pd.to_datetime(date)]
day_df_of(udf, d) ==
    Filter(udf, [i \in DOMAIN udf.rows |->
                   udf.rows[i]["ActivityDate"] = date_to_datetime(d)])
\* df[cols].sum(): one total per column over all rows of df
column_sums(df, cols) ==
    [k \in Range(cols) |-> SumSeq(Column(df, k))]
\* hour_intensity[['ActivityHour', 'TotalIntensity']]
project(df, cols) ==
    DF(cols, [i \in DOMAIN df.rows |-> Restrict(df.rows[i], cols)])

\* the line at which one run of the script body raises, 0 when it completes
CrashLine(t, u, d) ==
    IF "Steps" \notin t.daily_combined.columns THEN 56
    ELSE IF "Distance" \notin t.daily_combined.columns THEN 57
    ELSE IF "Calories Burned" \notin t.daily_combined.columns THEN 58
    ELSE IF "Sleeping Hours" \notin t.daily_combined.columns THEN 59
    ELSE IF u = NoSelection \/ d = NoSelection THEN 0
    ELSE IF ~(Range(MinutesColumns) \subseteq t.daily_activity.columns)
      THEN 117
    ELSE IF ~(Range(DistanceColumns) \subseteq t.daily_activity.columns)
      THEN 119
    ELSE IF "Id" \notin t.hourly_calories.columns THEN 142
    ELSE IF "Id" \notin t.hourly_steps.columns THEN 143
    ELSE IF "Id" \notin t.hourly_intensity.columns THEN 144
    ELSE IF "TotalIntensity" \notin t.hourly_intensity.columns THEN 148
    ELSE 0

\* one execution of the script body below line 48 on the tables t with the
\* widget values u (user) and d (date): every name it binds, and the tables
\* as the run leaves them
Script(t, u, d) ==
    LET crash == CrashLine(t, u, d)
        reached(line) == crash = 0 \/ line < crash
        sel == u # NoSelection
        full == sel /\ d # NoSelection
        dc == t.daily_combined
        udf == user_df_of(t.daily_activity, u)
        ddf == day_df_of(udf, d)
        gc == get_user_df(u, d, t.hourly_calories)
        gs == get_user_df(u, d, t.hourly_steps)
        gi == get_user_df(u, d, t.hourly_intensity)
    IN [crash_line |-> crash,
        avg_steps |-> IF reached(56)
                        THEN mean(AsCells(dc, "Steps")) ELSE Unset,
        avg_distance |-> IF reached(57)
                           THEN mean(AsCells(dc, "Distance")) ELSE Unset,
        avg_calories |-> IF reached(58)
                           THEN mean(AsCells(dc, "Calories Burned"))
                           ELSE Unset,
        avg_sleep |-> IF reached(59)
                        THEN mean(Column(dc, "Sleeping Hours")) ELSE Unset,
        user_min_date |-> IF sel /\ reached(104)
                            THEN series_min(udf, "ActivityDate")
                            ELSE NoSelection,
        user_max_date |-> IF sel /\ reached(105)
                            THEN series_max(udf, "ActivityDate")
                            ELSE NoSelection,
        day_df |-> IF full /\ reached(110) THEN ddf ELSE EmptyDF,
        total_minutes |-> IF full /\ reached(117)
                            THEN column_sums(ddf, MinutesColumns)
                            ELSE <<>>,
        distances |-> IF full /\ reached(119)
                        THEN column_sums(ddf, DistanceColumns) ELSE <<>>,
        hour_calories |-> IF full /\ reached(142) THEN gc.ret ELSE EmptyDF,
        hour_steps |-> IF full /\ reached(143) THEN gs.ret ELSE EmptyDF,
        hour_intensity |-> IF full /\ reached(144) THEN gi.ret ELSE EmptyDF,
        hourly_data |-> IF full /\ reached(148)
                          THEN merge_inner(gc.ret,
                                 project(gi.ret,
                                         {"ActivityHour", "TotalIntensity"}),
                                 {"ActivityHour"})
                          ELSE EmptyDF,
        tables |-> [t EXCEPT
            !.hourly_calories = IF full /\ reached(142) THEN gc.df ELSE @,
            !.hourly_steps = IF full /\ reached(143) THEN gs.df ELSE @,
            !.hourly_intensity = IF full /\ reached(144) THEN gi.df ELSE @]]

\* -------------------------------------------------------------------- state
VARIABLES
    files, csv,                       \* the data/ directory: names, contents
    load_status,                      \* "unloaded", "ok" or the exception
    daily_activity, daily_sleep, hourly_steps, hourly_intensity,
    hourly_calories, daily_combined,  \* the tables line 48 binds
    user, date,                       \* widget values
    crash_line,
    avg_steps, avg_distance, avg_calories, avg_sleep,
    user_min_date, user_max_date, day_df, total_minutes, distances,
    hour_calories, hour_steps, hour_intensity, hourly_data

sources == <<files, csv>>
tables == <<daily_activity, daily_sleep, hourly_steps, hourly_intensity,
            hourly_calories, daily_combined>>
widgets == <<user, date>>
results == <<crash_line, avg_steps, avg_distance, avg_calories, avg_sleep,
             user_min_date, user_max_date, day_df, total_minutes, distances,
             hour_calories, hour_steps, hour_intensity, hourly_data>>
vars == <<sources, load_status, tables, widgets, results>>

Tables == [daily_activity |-> daily_activity, daily_sleep |-> daily_sleep,
           hourly_steps |-> hourly_steps,
           hourly_intensity |-> hourly_intensity,
           hourly_calories |-> hourly_calories,
           daily_combined |-> daily_combined]

\* the five files with their expected headers over the given rows
Csv(da, ds, hs, hi, hc) ==
    [daily_activity |-> read_csv(ExpectedColumns.daily_activity, da),
     daily_sleep |-> read_csv(ExpectedColumns.daily_sleep, ds),
     hourly_steps |-> read_csv(ExpectedColumns.hourly_steps, hs),
     hourly_intensity |-> read_csv(ExpectedColumns.hourly_intensity, hi),
     hourly_calories |-> read_csv(ExpectedColumns.hourly_calories, hc)]

BaseRows == [daily_activity |-> <<A1, A3>>, daily_sleep |-> <<S1>>,
             hourly_steps |-> <<HS2, HS1>>, hourly_intensity |-> <<HI1>>,
             hourly_calories |-> <<HC1, HC2>>]
BadRow == [daily_activity |-> ABad, daily_sleep |-> SBad,
           hourly_steps |-> [HS1 EXCEPT !.ActivityHour = BadDate],
           hourly_intensity |-> [HI1 EXCEPT !.ActivityHour = BadDate],
           hourly_calories |-> [HC1 EXCEPT !.ActivityHour = BadDate]]
BaseCsv == Csv(BaseRows.daily_activity, BaseRows.daily_sleep,
               BaseRows.hourly_steps, BaseRows.hourly_intensity,
               BaseRows.hourly_calories)

\* well-formed files: the daily tables vary
DailyInputs ==
    {Csv(da, ds, BaseRows.hourly_steps, BaseRows.hourly_intensity,
         BaseRows.hourly_calories) :
       da \in SeqsUpTo(ActivityPool, MaxDaily),
       ds \in SeqsUpTo(SleepPool, MaxSleep)}
\* well-formed files: the hourly tables vary
HourlyInputs ==
    {Csv(BaseRows.daily_activity, BaseRows.daily_sleep,
         BaseRows.hourly_steps, hi, hc) :
       hi \in SeqsUpTo(IntensityPool, MaxHourly),
       hc \in SeqsUpTo(CaloriesPool, MaxHourly)}
    \cup
    {Csv(BaseRows.daily_activity, BaseRows.daily_sleep,
         hs, BaseRows.hourly_intensity, BaseRows.hourly_calories) :
       hs \in SeqsUpTo(StepsPool, MaxHourly)}
\* one file lacks one expected column
MissingColumnInputs ==
    {[BaseCsv EXCEPT ![t] = read_csv(ExpectedColumns[t] \ {c}, BaseRows[t])] :
       t \in Sources, c \in UNION {ExpectedColumns[x] : x \in Sources}}
\* one file holds a row whose date does not parse
BadDateInputs ==
    {[BaseCsv EXCEPT ![t] = read_csv(ExpectedColumns[t],
                                     Append(BaseRows[t], BadRow[t]))] :
       t \in Sources}

Unbound ==
    /\ daily_activity = EmptyDF /\ daily_sleep = EmptyDF
    /\ hourly_steps = EmptyDF /\ hourly_intensity = EmptyDF
    /\ hourly_calories = EmptyDF /\ daily_combined = EmptyDF
    /\ user = NoSelection /\ date = NoSelection
    /\ crash_line = 0
    /\ avg_steps = Unset /\ avg_distance = Unset
    /\ avg_calories = Unset /\ avg_sleep = Unset
    /\ user_min_date = NoSelection /\ user_max_date = NoSelection
    /\ day_df = EmptyDF /\ total_minutes = <<>> /\ distances = <<>>
    /\ hour_calories = EmptyDF /\ hour_steps = EmptyDF
    /\ hour_intensity = EmptyDF /\ hourly_data = EmptyDF

Init ==
    /\ load_status = "unloaded"
    /\ \/ files = Sources
          /\ csv \in DailyInputs \cup HourlyInputs
                       \cup MissingColumnInputs \cup BadDateInputs
       \/ csv = BaseCsv
          /\ files \in {Sources \ {t} : t \in Sources}
    /\ Unbound

\* bind every name one run of the script body assigns
Bind(r) ==
    /\ daily_activity' = r.tables.daily_activity
    /\ daily_sleep' = r.tables.daily_sleep
    /\ hourly_steps' = r.tables.hourly_steps
    /\ hourly_intensity' = r.tables.hourly_intensity
    /\ hourly_calories' = r.tables.hourly_calories
    /\ daily_combined' = r.tables.daily_combined
    /\ crash_line' = r.crash_line
    /\ avg_steps' = r.avg_steps /\ avg_distance' = r.avg_distance
    /\ avg_calories' = r.avg_calories /\ avg_sleep' = r.avg_sleep
    /\ user_min_date' = r.user_min_date /\ user_max_date' = r.user_max_date
    /\ day_df' = r.day_df
    /\ total_minutes' = r.total_minutes /\ distances' = r.distances
    /\ hour_calories' = r.hour_calories /\ hour_steps' = r.hour_steps
    /\ hour_intensity' = r.hour_intensity /\ hourly_data' = r.hourly_data

\* a widget created at `line` was drawn by the last run
Drawn(line) == load_status = "ok" /\ (crash_line = 0 \/ line < crash_line)

\* first run: load_data executes (cache miss); if it raises the script stops
\* at line 48 with nothing bound
FirstRunFails ==
    /\ load_status = "unloaded"
    /\ LoadError(files, csv) # ""
    /\ load_status' = LoadError(files, csv)
    /\ UNCHANGED <<sources, tables, widgets, results>>

\* first run: load_data returns and the body runs with nothing selected
FirstRun ==
    /\ load_status = "unloaded"
    /\ LoadError(files, csv) = ""
    /\ load_status' = "ok"
    /\ Bind(Script(load_data(csv), NoSelection, NoSelection))
    /\ UNCHANGED <<sources, widgets>>

\* a chart widget (lines 70, 84, 86) changes; the script reruns with the
\* same user and date (the chart choices feed only the plotly calls)
Rerun ==
    /\ Drawn(70)
    /\ Bind(Script(Tables, user, date))
    /\ UNCHANGED <<sources, load_status, widgets>>

\* the selectbox of line 101 changes; the date input is rebuilt for the
\* new user's range and starts empty
SelectUser(u) ==
    /\ Drawn(101)
    /\ u # user
    /\ u \in Range(Column(daily_activity, "Id")) \cup {NoSelection}
    /\ user' = u
    /\ date' = NoSelection
    /\ Bind(Script(Tables, u, NoSelection))
    /\ UNCHANGED <<sources, load_status>>

\* the date input of line 106 changes to a day of its min..max range
SelectDate(d) ==
    /\ Drawn(106)
    /\ user # NoSelection
    /\ d # date
    /\ d = NoSelection
         \/ d \in dt_date(user_min_date) .. dt_date(user_max_date)
    /\ date' = d
    /\ Bind(Script(Tables, user, d))
    /\ UNCHANGED <<sources, load_status, user>>

Days == 1..3
Users == 1..2

Next ==
    \/ FirstRunFails
    \/ FirstRun
    \/ Rerun
    \/ \E u \in Users \cup {NoSelection} : SelectUser(u)
    \/ \E d \in Days \cup {NoSelection} : SelectDate(d)

Spec == Init /\ [][Next]_vars

\* ------------------------------------------------- values handed to the page
\* lines 113-115: what the three st.metric calls receive, the filtered
\* columns of day_df as they are
DayMetrics ==
    [kind |-> "Series",
     steps |-> Column(day_df, "TotalSteps"),
     distance |-> [i \in DOMAIN day_df.rows |->
                     round2(day_df.rows[i]["TotalDistance"])],
     calories |-> Column(day_df, "Calories")]
\* line 125: total_minutes.sum()
TotalMinutesTracked ==
    SumSeq([i \in DOMAIN MinutesColumns |-> total_minutes[MinutesColumns[i]]])

\* ------------------------------------------------------------------ claims
Loaded == load_status = "ok"
\* some source is missing, lacks an expected column or holds a bad date
Defective ==
    \/ files # Sources
    \/ \E t \in Sources : csv[t].columns # ExpectedColumns[t]
    \/ \E t \in Sources : \E i \in DOMAIN csv[t].rows :
         \E c \in {"ActivityDate", "SleepDay", "ActivityHour"} :
            c \in csv[t].columns /\ ~csv[t].rows[i][c].ok
\* a run over well-formed sources that reached the end of the script
Completed == Loaded /\ ~Defective /\ crash_line = 0
SliceShown == Completed /\ user # NoSelection /\ date # NoSelection
Count(rows, P(_)) == Cardinality({i \in DOMAIN rows : P(rows[i])})
HasSleep(r) ==
    \E j \in DOMAIN daily_sleep.rows :
        /\ daily_sleep.rows[j]["Id"] = r["Id"]
        /\ daily_sleep.rows[j]["ActivityDate"] = r["ActivityDate"]

\* C1: DailyCombined has exactly as many rows as DailyActivity, also when
\* DailySleep repeats an (Id, ActivityDate) key.
C1_CombinedKeepsRowCount ==
    Loaded => Len(daily_combined.rows) = Len(daily_activity.rows)

\* C2: a DailyCombined row without a DailySleep row for its key has a null
\* Sleeping Hours, and the Sleeping Hours mean is the sum of the hours of
\* the matched rows divided by the number of matched rows only.
C2_NullSleepSkipped ==
    Completed =>
      LET rows == daily_combined.rows
          M == {i \in DOMAIN rows : HasSleep(rows[i])}
          minutes == SumSeq([i \in DOMAIN rows |->
                       IF i \in M THEN rows[i]["TotalMinutesAsleep"].num
                       ELSE 0])
      IN /\ \A i \in DOMAIN rows :
              ~HasSleep(rows[i]) =>
                 /\ rows[i]["Sleeping Hours"].null
                 /\ rows[i]["Sleeping Hours"] # Cell(0, 60)
         /\ M # {} =>
              /\ avg_sleep.kind = "float"
              /\ avg_sleep.num * 60 * Cardinality(M) = minutes * avg_sleep.den
C2_Witness ==
    /\ Completed
    /\ \E i \in DOMAIN daily_combined.rows : ~HasSleep(daily_combined.rows[i])
    /\ \E i \in DOMAIN daily_combined.rows :
         /\ HasSleep(daily_combined.rows[i])
         /\ daily_combined.rows[i]["Sleeping Hours"].num > 0
    /\ avg_sleep.kind = "float"

NoData == [kind |-> "nodata", num |-> 0, den |-> 1]
\* C3: on an empty DailyCombined each of the four cohort means is the NoData
\* outcome, never NaN and never zero.
C3_EmptyGivesNoData ==
    (Completed /\ daily_combined.rows = <<>>) =>
      \A a \in {avg_steps, avg_distance, avg_calories, avg_sleep} : a = NoData

\* C4: the daily part of the slice is decided by the number of DailyActivity
\* rows for (user, date): one row gives its steps, distance and calories,
\* none gives NotFound, two or more give IntegrityViolation.
C4_DailyPartByRowCount ==
    SliceShown =>
      LET rows == daily_activity.rows
          K == {i \in DOMAIN rows :
                  /\ rows[i]["Id"] = user
                  /\ dt_date(rows[i]["ActivityDate"]) = date}
          only == rows[CHOOSE i \in K : TRUE]
      IN IF Cardinality(K) = 1
           THEN DayMetrics = [kind |-> "Series",
                              steps |-> <<only["TotalSteps"]>>,
                              distance |-> <<round2(only["TotalDistance"])>>,
                              calories |-> <<only["Calories"]>>]
         ELSE IF K = {} THEN DayMetrics.kind = "NotFound"
         ELSE DayMetrics.kind = "IntegrityViolation"

OnDay(r) == r["Id"] = user /\ dt_date(r["ActivityHour"]) = date
\* slice holds exactly the rows of source that are of the user and the day
ExactSlice(slice, source) ==
    /\ \A i \in DOMAIN slice.rows : OnDay(slice.rows[i])
    /\ \A i \in DOMAIN source.rows :
         OnDay(source.rows[i]) =>
           Count(slice.rows, LAMBDA r : r = source.rows[i])
             = Count(source.rows, LAMBDA r : r = source.rows[i])
Ascending(slice) ==
    \A i, j \in DOMAIN slice.rows :
        i < j => slice.rows[i]["ActivityHour"] <= slice.rows[j]["ActivityHour"]
\* C5: each hourly slice holds exactly the source rows of the user and the
\* calendar day, in ascending ActivityHour order whatever the source order.
C5_HourlySlicesExactAndSorted ==
    SliceShown =>
      /\ ExactSlice(hour_steps, hourly_steps) /\ Ascending(hour_steps)
      /\ ExactSlice(hour_intensity, hourly_intensity)
      /\ Ascending(hour_intensity)
      /\ ExactSlice(hour_calories, hourly_calories)
      /\ Ascending(hour_calories)

AtHour(rows, h) == Count(rows, LAMBDA r : r["ActivityHour"] = h)
SliceHours ==
    Range(Column(hour_calories, "ActivityHour"))
      \cup Range(Column(hour_intensity, "ActivityHour"))
\* every row of the combined view pairs a calories row and an intensity row
\* of the same hour
RowsArePairs ==
    \A k \in DOMAIN hourly_data.rows :
       LET r == hourly_data.rows[k]
       IN /\ \E i \in DOMAIN hour_calories.rows :
               /\ hour_calories.rows[i]["ActivityHour"] = r["ActivityHour"]
               /\ hour_calories.rows[i]["Calories"] = r["Calories"]
          /\ \E j \in DOMAIN hour_intensity.rows :
               /\ hour_intensity.rows[j]["ActivityHour"] = r["ActivityHour"]
               /\ hour_intensity.rows[j]["TotalIntensity"]
                    = r["TotalIntensity"]
StepsUntouched ==
    hour_steps.rows
      = SelectSeq(hourly_steps.rows, LAMBDA r : OnDay(r))
\* C6 as stated: the combined hourly view has one row for each hour present
\* in both slices and none for an hour present in only one.
C6_OneRowPerCommonHour ==
    SliceShown =>
      /\ \A h \in SliceHours :
           AtHour(hourly_data.rows, h) =
             IF AtHour(hour_calories.rows, h) > 0
                  /\ AtHour(hour_intensity.rows, h) > 0
               THEN 1 ELSE 0
      /\ RowsArePairs
      /\ StepsUntouched
\* C6 amended: the combined hourly view has one row for each pair of a
\* calories row and an intensity row with the same ActivityHour (exactly
\* one per common hour when neither slice repeats an hour), none for an
\* hour present in only one slice, and the steps slice is unaffected.
C6_OneRowPerMatchingPair ==
    SliceShown =>
      /\ \A h \in SliceHours :
           AtHour(hourly_data.rows, h) =
             AtHour(hour_calories.rows, h) * AtHour(hour_intensity.rows, h)
      /\ \A k \in DOMAIN hourly_data.rows :
           hourly_data.rows[k]["ActivityHour"] \in SliceHours
      /\ RowsArePairs
      /\ StepsUntouched
C6_Witness ==
    /\ SliceShown
    /\ \E h \in SliceHours :
         AtHour(hour_calories.rows, h) > 0 /\ AtHour(hour_intensity.rows, h) = 0
    /\ \E h \in SliceHours : AtHour(hourly_data.rows, h) = 1
    /\ hour_steps.rows # <<>>

UserDates ==
    {daily_activity.rows[i]["ActivityDate"] :
       i \in {j \in DOMAIN daily_activity.rows :
                daily_activity.rows[j]["Id"] = user}}
\* C7: the date range of a selected user is the least and the greatest
\* ActivityDate over that user's rows only, whatever the row order; a user
\* without rows gets no range (the selectbox offers no such user, so a
\* selected user always has a row).
C7_UserDateRange ==
    (Completed /\ user # NoSelection) =>
      /\ UserDates # {}
      /\ user_min_date \in UserDates /\ user_max_date \in UserDates
      /\ \A x \in UserDates : user_min_date <= x /\ x <= user_max_date
C7_Witness ==
    /\ Completed /\ user # NoSelection
    /\ user_min_date < user_max_date
    /\ daily_activity.rows[1]["ActivityDate"] = user_max_date

\* C8: with a missing source, a missing expected column or an unparseable
\* date, load_data returns no table and no aggregate is evaluated.
C8_DefectFailsWholeLoad ==
    (Defective /\ load_status # "unloaded") =>
      /\ load_status # "ok"
      /\ daily_combined = EmptyDF
      /\ avg_steps = Unset

\* C9: once loaded, no run changes any of the six tables, and a rerun with
\* the same user and date binds identical results.
C9_TablesFrozen ==
    [][Loaded =>
         /\ tables' = tables
         /\ (user' = user /\ date' = date) => results' = results]_vars
C9_Witness ==
    /\ SliceShown
    /\ hourly_data.rows # <<>>
    /\ Len(hour_calories.rows) < Len(hourly_calories.rows)

\* C10: with a single DailyActivity row for (user, date), each minutes and
\* distance value of the breakdown is that row's field and Total Minutes
\* Tracked is the sum of its four minutes fields.
C10_BreakdownReadsTheRow ==
    SliceShown =>
      LET rows == daily_activity.rows
          K == {i \in DOMAIN rows :
                  /\ rows[i]["Id"] = user
                  /\ dt_date(rows[i]["ActivityDate"]) = date}
          only == rows[CHOOSE i \in K : TRUE]
      IN Cardinality(K) = 1 =>
           /\ \A c \in Range(MinutesColumns) : total_minutes[c] = only[c]
           /\ \A c \in Range(DistanceColumns) : distances[c] = only[c]
           /\ TotalMinutesTracked =
                only["VeryActiveMinutes"] + only["FairlyActiveMinutes"]
                  + only["LightlyActiveMinutes"] + only["SedentaryMinutes"]
C10_Witness ==
    /\ SliceShown
    /\ Len(day_df.rows) = 1
    /\ Len(user_df_of(daily_activity, user).rows) > 1
    /\ TotalMinutesTracked = 950

====
